---- MODULE Spec2Model ----
(***************************************************************************)
(* A model of scripts/add_week.py: the weekly-article pipeline that parses *)
(* a source markdown file, converts referenced images to WebP, upserts the *)
(* article into articles.json and mirrors the document into index.html.    *)
(*                                                                         *)
(* Text is modelled as a sequence of atoms.  An atom is a short string     *)
(* that stands for one character or one indivisible word of the text.      *)
(***************************************************************************)
EXTENDS Integers, Sequences, FiniteSets, TLC

VARIABLES
    data,        \* the in-memory document: [articles, completed, total]
    article,     \* the article dict handed to upsert_article
    pre,         \* the document as it was before the latest upsert_article
    seenWeeks,   \* weeks initially present or upserted so far
    initUnique,  \* whether the initial document had one record per week
    calls,       \* number of upsert_article calls made
    html,        \* the text of index.html
    htmlPre,     \* the text of index.html before the latest sync_inline_json
    content,     \* the article body being built
    contentPre,  \* the body before convert_and_rewrite_assets_in_content
    files,       \* the asset files that exist, as paths relative to ROOT
    filesPre,    \* the asset files that existed when the run started
    toolRuns,    \* number of cwebp invocations in this run
    toolFailAt,  \* which cwebp invocation of a run fails (0: none)
    source,      \* the source markdown file named on the command line
    articlesJson,\* the file articles.json: the document and how it is laid out
    coverPath,   \* the cover image main() settled on
    question,    \* the question main() extracted
    snap,        \* articles.json, index.html and the assets when the run started
    firstRun,    \* the same after the first successful run
    run,         \* which run of the script this is
    reason,      \* what die() reported
    pc,          \* where the run is
    exitCode     \* the exit status of the run, -1 while it is running

docVars == <<data, article, pre, seenWeeks, initUnique, calls>>
syncVars == <<html, htmlPre>>
assetVars == <<content, contentPre, files, filesPre, toolRuns, toolFailAt>>
mainVars == <<source, articlesJson, coverPath, question, snap, firstRun, run>>
ctlVars == <<pc, exitCode, reason>>
vars == <<docVars, syncVars, assetVars, mainVars, ctlVars>>

\* no assets are involved
NoAssets ==
    /\ content = <<>>
    /\ contentPre = <<>>
    /\ files = {}
    /\ filesPre = {}
    /\ toolRuns = 0
    /\ toolFailAt = 0

NoSource == [exists |-> FALSE, nameOk |-> FALSE, week |-> 0, title |-> <<>>, lines |-> <<>>]

NoFile == [doc |-> [articles |-> <<>>, completed |-> 0, total |-> 52], layout |-> "indent2"]

\* main() is not running: one function is exercised on its own
NoMain ==
    /\ source = NoSource
    /\ articlesJson = NoFile
    /\ coverPath = <<>>
    /\ question = <<>>
    /\ snap = [json |-> NoFile, html |-> <<>>, files |-> {}]
    /\ firstRun = snap
    /\ run = 0
    /\ reason = ""

(***************************************************************************)
(* Bounds                                                                  *)
(***************************************************************************)
MaxWeek == 2
MaxInit == 2
MaxCalls == 2
MaxHtml == 5
MaxStr == 3
MaxSegs == 4

Weeks == 0..MaxWeek
Titles == {<<"t">>, <<"u">>}

\* The dict main() builds (lines 222-228): exactly these five keys.
NewArticles ==
    [week : Weeks, title : Titles, question : {<<"q">>},
     content : {<<"c">>}, image : {<<"i">>}]

\* A record already stored in articles.json may carry keys main() never
\* writes (hand-edited data); one such record per week.
LegacyArticle(w) ==
    [week |-> w, title |-> <<"o">>, question |-> <<"q">>,
     content |-> <<"c">>, image |-> <<"i">>, note |-> <<"n">>]

StoredArticles == NewArticles \cup {LegacyArticle(w) : w \in Weeks}

SeqsUpTo(S, n) == UNION {[1..k -> S] : k \in 0..n}

NoArticle == [week |-> -1]

(***************************************************************************)
(* upsert_article                                                          *)
(***************************************************************************)
\* Every stored record carries an integer week (the data model of
\* articles.json), so a.get("week") and the sort key a.get("week", 0) are
\* the record's week.
WeekSet(articles) == {articles[i].week : i \in DOMAIN articles}

\* index of the first record whose week matches, 0 when none (lines 155-159)
FirstMatch(articles, week) ==
    IF \E i \in DOMAIN articles : articles[i].week = week
    THEN CHOOSE i \in DOMAIN articles :
            /\ articles[i].week = week
            /\ \A j \in 1..(i - 1) : articles[j].week # week
    ELSE 0

\* insert a behind every element whose key is <= its own: what a stable
\* sort does with the elements one after the other
RECURSIVE InsertStable(_, _)
InsertStable(sorted, a) ==
    IF sorted = <<>> THEN <<a>>
    ELSE IF sorted[Len(sorted)].week <= a.week THEN Append(sorted, a)
    ELSE Append(InsertStable(SubSeq(sorted, 1, Len(sorted) - 1), a),
                sorted[Len(sorted)])

\* a slip: the sort is left out
SortByWeek_none(articles) == articles

RECURSIVE SortByWeek(_)
SortByWeek(articles) ==
    IF articles = <<>> THEN <<>>
    ELSE InsertStable(SortByWeek(SubSeq(articles, 1, Len(articles) - 1)),
                      articles[Len(articles)])

\* a slip: the stored dict is updated with the new keys instead of replaced
ReplaceOrAppend_merge(articles, a) ==
    LET i == FirstMatch(articles, a.week)
        old == articles[i]
        merged == [k \in (DOMAIN old) \cup (DOMAIN a) |->
                      IF k \in DOMAIN a THEN a[k] ELSE old[k]]
    IN IF i # 0 THEN [articles EXCEPT ![i] = merged] ELSE Append(articles, a)

\* a slip: the match is never looked for
ReplaceOrAppend_append(articles, a) == Append(articles, a)

\* the loop of lines 155-161: replace the first match, or append
ReplaceOrAppend(articles, a) ==
    LET i == FirstMatch(articles, a.week) IN
    IF i # 0 THEN [articles EXCEPT ![i] = a] ELSE Append(articles, a)

\* a slip: the count is kept by incrementing instead of recounting
UpsertArticle_increment(d, a) ==
    LET articles == SortByWeek(ReplaceOrAppend(d.articles, a)) IN
    [d EXCEPT !.articles = articles, !.completed = d.completed + 1]

UpsertArticle(d, a) ==
    LET articles == SortByWeek(ReplaceOrAppend(d.articles, a)) IN
    [d EXCEPT !.articles = articles, !.completed = Len(articles)]

IsSorted(articles) ==
    \A i, j \in DOMAIN articles : i < j => articles[i].week <= articles[j].week

UniqueWeeks(articles) ==
    \A i, j \in DOMAIN articles : articles[i].week = articles[j].week => i = j

(***************************************************************************)
(* A document drawn from bounded sets, then any sequence of upserts.       *)
(***************************************************************************)
InitDoc ==
    /\ \E articles \in SeqsUpTo(StoredArticles, MaxInit) :
       \E completed \in {Len(articles), MaxInit + 1} :
          /\ data = [articles |-> articles, completed |-> completed, total |-> 52]
          /\ seenWeeks = WeekSet(articles)
          /\ initUnique = UniqueWeeks(articles)
    /\ pre = data
    /\ article = NoArticle
    /\ calls = 0
    /\ html = <<>>
    /\ htmlPre = <<>>
    /\ NoAssets
    /\ NoMain
    /\ pc = "upsert"
    /\ exitCode = -1

Upsert(a) ==
    /\ calls < MaxCalls
    /\ pre' = data
    /\ article' = a
    /\ data' = UpsertArticle(data, a)
    /\ seenWeeks' = seenWeeks \cup {a.week}
    /\ calls' = calls + 1
    /\ UNCHANGED <<initUnique, syncVars, assetVars, mainVars, ctlVars>>

NextUpsert == \E a \in NewArticles : Upsert(a)

SpecUpsert == InitDoc /\ [][NextUpsert]_vars

(***************************************************************************)
(* Text helpers: str.find, str.replace                                     *)
(***************************************************************************)
Matches(text, pat, i) ==
    /\ i >= 1
    /\ i + Len(pat) - 1 <= Len(text)
    /\ SubSeq(text, i, i + Len(pat) - 1) = pat

\* str.find(pat, from): the least index >= from where pat occurs, 0 when none
\* (Python's -1); indices are 1-based here.
Find(text, pat, from) ==
    IF \E i \in from..Len(text) : Matches(text, pat, i)
    THEN CHOOSE i \in from..Len(text) :
            /\ Matches(text, pat, i)
            /\ \A j \in from..(i - 1) : ~Matches(text, pat, j)
    ELSE 0

\* str.replace(pat, rep): the non-overlapping occurrences, left to right
RECURSIVE ReplaceAll(_, _, _)
ReplaceAll(text, pat, rep) ==
    LET i == Find(text, pat, 1) IN
    IF i = 0 THEN text
    ELSE SubSeq(text, 1, i - 1) \o rep
         \o ReplaceAll(SubSeq(text, i + Len(pat), Len(text)), pat, rep)

RECURSIVE Concat(_)
Concat(ss) == IF ss = <<>> THEN <<>> ELSE ss[1] \o Concat(Tail(ss))

(***************************************************************************)
(* Paths (pathlib)                                                         *)
(*                                                                         *)
(* A path is a sequence of components relative to ROOT; a component is a   *)
(* sequence of atoms.  Path text uses the atoms "." and "/", "a" for the   *)
(* word "assets", "n" for a name character and one atom per extension word.*)
(***************************************************************************)
\* the text split at every "/"
RECURSIVE SplitSlash(_)
SplitSlash(text) ==
    LET i == Find(text, <<"/">>, 1) IN
    IF i = 0 THEN <<text>>
    ELSE <<SubSeq(text, 1, i - 1)>> \o SplitSlash(SubSeq(text, i + 1, Len(text)))

\* pathlib drops empty components and "." components when it parses a path
ParsePath(text) ==
    SelectSeq(SplitSlash(text), LAMBDA c : c # <<>> /\ c # <<".">>)

\* resolve_local_path (lines 94-97): ROOT / path_str[2:], or None
IsLocal(text) == Len(text) >= 2 /\ SubSeq(text, 1, 2) = <<".", "/">>

ResolveLocalPath(text) == ParsePath(SubSeq(text, 3, Len(text)))

\* the index of the dot that starts the suffix of a file name, 0 when the name
\* has none: pathlib takes the last dot unless it is the first or the last atom
SuffixDot(name) ==
    LET dots == {i \in 2..(Len(name) - 1) : name[i] = "."} IN
    IF dots = {} THEN 0 ELSE CHOOSE i \in dots : \A j \in dots : j <= i

StemOf(name) ==
    IF SuffixDot(name) = 0 THEN name ELSE SubSeq(name, 1, SuffixDot(name) - 1)

SuffixOf(name) ==
    IF SuffixDot(name) = 0 THEN <<>> ELSE SubSeq(name, SuffixDot(name), Len(name))

DirOf(path) == SubSeq(path, 1, Len(path) - 1)

NameOf(path) == path[Len(path)]

\* Path.with_suffix(".webp") (line 101)
WithSuffixWebp(path) == Append(DirOf(path), StemOf(NameOf(path)) \o <<".", "webp">>)

\* "./" + path.relative_to(ROOT).as_posix() (lines 145-146, 214-215)
RECURSIVE JoinSlash(_)
JoinSlash(path) ==
    IF path = <<>> THEN <<>>
    ELSE IF Len(path) = 1 THEN path[1]
    ELSE path[1] \o <<"/">> \o JoinSlash(Tail(path))

RefOf(path) == <<".", "/">> \o JoinSlash(path)

(***************************************************************************)
(* ensure_webp                                                             *)
(***************************************************************************)
\* The state of the file system and of the run while assets are converted:
\* files that exist, cwebp invocations made, and whether die() was called.
\* The (failAt)-th invocation of a run fails (command missing or nonzero exit).
\* a slip: the file is converted again although the output exists
EnsureWebp_always(src, st, failAt) ==
    LET out == WithSuffixWebp(src) IN
    IF st.runs + 1 = failAt
    THEN [st EXCEPT !.runs = st.runs + 1, !.died = TRUE]
    ELSE [st EXCEPT !.runs = st.runs + 1, !.files = st.files \cup {out}]

\* ensure_webp (lines 100-120)
EnsureWebp(src, st, failAt) ==
    LET out == WithSuffixWebp(src) IN
    IF out \in st.files THEN st
    ELSE IF st.runs + 1 = failAt
         THEN [st EXCEPT !.runs = st.runs + 1, !.died = TRUE]
         ELSE [st EXCEPT !.runs = st.runs + 1, !.files = st.files \cup {out}]

(***************************************************************************)
(* convert_and_rewrite_assets_in_content                                   *)
(***************************************************************************)
\* the characters the class [^\s\)\"'] excludes
Delims == {" ", "\n", ")", "\"", "'"}

\* \.(png|jpe?g) with IGNORECASE: the extension words behind the dot
RasterExts == {"png", "jpg", "jpeg", "PNG", "JPG", "JPEG"}

AssetsPrefix == <<".", "/", "a", "/">>

\* the last index of the stretch of non-delimiters that starts at i
RunEnd(text, i) ==
    LET stops == {j \in i..Len(text) : text[j] \in Delims} IN
    IF stops = {} THEN Len(text)
    ELSE (CHOOSE j \in stops : \A k \in stops : j <= k) - 1

\* the index where the match that starts at i ends, 0 when none starts there:
\* the prefix, a greedy run of at least one character, a dot, an extension
MatchEnd(text, i) ==
    IF ~Matches(text, AssetsPrefix, i) THEN 0
    ELSE LET first == i + Len(AssetsPrefix)
             dots == {k \in (first + 1)..(RunEnd(text, first) - 1) :
                         text[k] = "." /\ text[k + 1] \in RasterExts}
         IN IF dots = {} THEN 0
            ELSE (CHOOSE k \in dots : \A j \in dots : j <= k) + 1

\* the start of the leftmost match at or behind from, 0 when none
NextMatch(text, from) ==
    LET starts == {i \in from..Len(text) : MatchEnd(text, i) # 0} IN
    IF starts = {} THEN 0 ELSE CHOOSE i \in starts : \A j \in starts : i <= j

\* a slip: the existence of the source file is not checked
Repl_unchecked(occ, st, failAt) ==
    LET src == ResolveLocalPath(occ)
        after == EnsureWebp(src, st, failAt)
    IN [text |-> RefOf(WithSuffixWebp(src)), st |-> after]

\* repl (lines 137-146) for one occurrence
Repl(occ, st, failAt) ==
    LET src == ResolveLocalPath(occ) IN
    IF ~IsLocal(occ) \/ src \notin st.files THEN [text |-> occ, st |-> st]
    ELSE LET after == EnsureWebp(src, st, failAt) IN
         [text |-> RefOf(WithSuffixWebp(src)), st |-> after]

\* pattern.sub(repl, content): the matches left to right, each replaced by
\* what repl returns; the substitution ends where die() is called
RECURSIVE Rewrite(_, _, _)
Rewrite(text, st, failAt) ==
    LET i == NextMatch(text, 1) IN
    IF i = 0 THEN [text |-> text, st |-> st]
    ELSE LET e == MatchEnd(text, i)
             r == Repl(SubSeq(text, i, e), st, failAt)
         IN IF r.st.died THEN [text |-> text, st |-> r.st]
            ELSE LET rest == Rewrite(SubSeq(text, e + 1, Len(text)), r.st, failAt)
                 IN [text |-> SubSeq(text, 1, i - 1) \o r.text \o rest.text,
                     st |-> rest.st]

\* the occurrences of the pattern in a text, left to right
RECURSIVE Occurrences(_)
Occurrences(text) ==
    LET i == NextMatch(text, 1) IN
    IF i = 0 THEN <<>>
    ELSE <<SubSeq(text, i, MatchEnd(text, i))>>
         \o Occurrences(SubSeq(text, MatchEnd(text, i) + 1, Len(text)))

Range(f) == {f[i] : i \in DOMAIN f}

Segments ==
    {<<".", "/", "a", "/", "n">>,
     <<".", "/", "a", "/", "n", ".", "png">>, <<"/">>,
     <<" ">>, <<".", "png">>, <<".", "JPG">>}

\* the texts made of at most n segments
RECURSIVE Texts(_)
Texts(n) ==
    IF n = 0 THEN {<<>>}
    ELSE LET shorter == Texts(n - 1) IN
         shorter \cup {t \o s : t \in shorter, s \in Segments}

\* the files a text refers to, and their converted counterparts
CandidateFiles(text) ==
    LET srcs == {ResolveLocalPath(o) : o \in Range(Occurrences(text))} IN
    srcs \cup {WithSuffixWebp(p) : p \in srcs}

InitRewrite ==
    /\ content \in Texts(MaxSegs)
    /\ contentPre = content
    /\ files \in SUBSET CandidateFiles(content)
    /\ filesPre = files
    /\ toolRuns = 0
    /\ toolFailAt \in (IF CandidateFiles(content) = {} THEN {0} ELSE 0..2)
    /\ data = [articles |-> <<>>, completed |-> 0, total |-> 52]
    /\ pre = data
    /\ article = NoArticle
    /\ seenWeeks = {}
    /\ initUnique = TRUE
    /\ calls = 0
    /\ html = <<>>
    /\ htmlPre = <<>>
    /\ NoMain
    /\ pc = "rewrite"
    /\ exitCode = -1

RewriteResult == Rewrite(content, [files |-> files, runs |-> toolRuns, died |-> FALSE], toolFailAt)

\* convert_and_rewrite_assets_in_content returns
RewriteOk ==
    /\ pc = "rewrite"
    /\ ~RewriteResult.st.died
    /\ content' = RewriteResult.text
    /\ files' = RewriteResult.st.files
    /\ toolRuns' = RewriteResult.st.runs
    /\ pc' = "done"
    /\ exitCode' = 0
    /\ UNCHANGED <<docVars, syncVars, mainVars, reason, contentPre, filesPre, toolFailAt>>

\* cwebp is missing or fails: run() calls die() (lines 36-42)
RewriteDie ==
    /\ pc = "rewrite"
    /\ RewriteResult.st.died
    /\ files' = RewriteResult.st.files
    /\ toolRuns' = RewriteResult.st.runs
    /\ pc' = "failed"
    /\ exitCode' = 1
    /\ reason' = "tool"
    /\ UNCHANGED <<docVars, syncVars, mainVars, content, contentPre, filesPre, toolFailAt>>

NextRewrite == RewriteOk \/ RewriteDie

SpecRewrite == InitRewrite /\ [][NextRewrite]_vars

\* what the claim expects of one occurrence, judged by the files that existed
\* before the call: the occurrence itself, or the reference to the file in the
\* same directory with the same stem and the suffix .webp
ExpectedRepl(occ, fs) ==
    LET src == ResolveLocalPath(occ) IN
    IF src \notin fs THEN occ
    ELSE RefOf(Append(DirOf(src), StemOf(NameOf(src)) \o <<".", "webp">>))

RECURSIVE ExpectedText(_, _)
ExpectedText(text, fs) ==
    LET i == NextMatch(text, 1) IN
    IF i = 0 THEN text
    ELSE SubSeq(text, 1, i - 1) \o ExpectedRepl(SubSeq(text, i, MatchEnd(text, i)), fs)
         \o ExpectedText(SubSeq(text, MatchEnd(text, i) + 1, Len(text)), fs)

\* an occurrence as pathlib writes it back: no empty or "." component
IsNormal(occ) == JoinSlash(ResolveLocalPath(occ)) = SubSeq(occ, 3, Len(occ))

\* C8: convert_and_rewrite_assets_in_content leaves every "./assets/..."
\* occurrence with a png/jpg/jpeg extension whose source file does not exist
\* unchanged, replaces every one whose file exists by the path of the same
\* directory and stem with the extension webp, and keeps all other text.
C8_RewriteAssets ==
    pc = "done" =>
        /\ content = ExpectedText(contentPre, filesPre)
        /\ \A o \in Range(Occurrences(contentPre)) :
              (ResolveLocalPath(o) \in filesPre /\ IsNormal(o)
                 /\ SuffixOf(NameOf(ResolveLocalPath(o))) # <<>>)
              => ExpectedRepl(o, filesPre) = SubSeq(o, 1, Len(o) - 1) \o <<"webp">>

C8_Witness ==
    /\ pc = "done"
    /\ Len(Occurrences(contentPre)) = 2
    /\ \E o \in Range(Occurrences(contentPre)) : ResolveLocalPath(o) \in filesPre
    /\ \E o \in Range(Occurrences(contentPre)) : ResolveLocalPath(o) \notin filesPre
    /\ content # contentPre
    /\ toolRuns > 0

(***************************************************************************)
(* json.dumps(data, ensure_ascii=False, separators=(",", ": "))            *)
(***************************************************************************)
\* what json.dumps writes for one character of a string
JsonChar(c) ==
    CASE c = "\\" -> <<"\\", "\\">>
      [] c = "\"" -> <<"\\", "\"">>
      [] c = "\n" -> <<"\\", "n">>
      [] OTHER -> <<c>>

JsonString(str) ==
    <<"\"">> \o Concat([i \in DOMAIN str |-> JsonChar(str[i])]) \o <<"\"">>

\* the week is a number, every other value a string
JsonValue(k, v) == IF k = "week" THEN <<ToString(v)>> ELSE JsonString(v)

\* the keys in the order main() writes them; a stored record may carry more
KeyOrder == <<"week", "title", "question", "content", "image", "note">>

\* items joined by "," atoms
RECURSIVE JoinComma(_)
JoinComma(items) ==
    IF items = <<>> THEN <<>>
    ELSE IF Len(items) = 1 THEN items[1]
    ELSE items[1] \o <<",">> \o JoinComma(Tail(items))

DumpsArticle(a) ==
    LET keys == SelectSeq(KeyOrder, LAMBDA k : k \in DOMAIN a) IN
    <<"{">> \o JoinComma([i \in DOMAIN keys |->
                              JsonString(<<keys[i]>>) \o <<":">> \o JsonValue(keys[i], a[keys[i]])])
    \o <<"}">>

Dumps(d) ==
    <<"{">> \o JsonString(<<"articles">>) \o <<":", "[">>
    \o JoinComma([i \in DOMAIN d.articles |-> DumpsArticle(d.articles[i])])
    \o <<"]", ",">> \o JsonString(<<"completed">>) \o <<":", ToString(d.completed), ",">>
    \o JsonString(<<"total">>) \o <<":", ToString(d.total), "}">>

(***************************************************************************)
(* sync_inline_json                                                        *)
(***************************************************************************)
\* '<script id="articles-data" type="application/json">' as one atom
Marker == <<"M">>
\* "</script>": "<", "/" and the word "script>"
Closing == <<"<", "/", "s">>
EscapedClosing == <<"<", "\\", "/", "s">>

\* a slip: the serialization is embedded as it is
Inline_raw(d) == Dumps(d)

\* lines 178-180
Inline(d) == ReplaceAll(Dumps(d), Closing, EscapedClosing)

\* index of the first atom behind the opening marker, 0 when there is none
StartOf(text) ==
    LET start == Find(text, Marker, 1) IN
    IF start = 0 THEN 0 ELSE start + Len(Marker)

\* index of the closing marker that follows the opening one, 0 when none
EndOf(text) == IF StartOf(text) = 0 THEN 0 ELSE Find(text, Closing, StartOf(text))

\* which of the two die() calls of lines 171-176 is made
MarkerMissing(text) ==
    IF StartOf(text) = 0 THEN "no_open_marker" ELSE "no_close_marker"

\* the text sync_inline_json writes (line 182)
SyncedHtml(text, d) ==
    SubSeq(text, 1, StartOf(text) - 1) \o Inline(d)
    \o SubSeq(text, EndOf(text), Len(text))

HtmlAtoms == {"M", "<", "/", "s"}
StrAtoms == {"<", "/", "s"}

InitSync ==
    /\ html \in SeqsUpTo(HtmlAtoms, MaxHtml)
    /\ htmlPre = html
    /\ \E articles \in SeqsUpTo([week : {1}, title : SeqsUpTo(StrAtoms, MaxStr),
                                  question : {<<"q">>}, content : {<<"c">>},
                                  image : {<<"i">>}], 1) :
          data = [articles |-> articles, completed |-> Len(articles), total |-> 52]
    /\ pre = data
    /\ article = NoArticle
    /\ seenWeeks = {}
    /\ initUnique = TRUE
    /\ calls = 0
    /\ NoAssets
    /\ NoMain
    /\ pc = "sync"
    /\ exitCode = -1

\* sync_inline_json when both markers are found
SyncOk ==
    /\ pc = "sync"
    /\ EndOf(html) # 0
    /\ htmlPre' = html
    /\ html' = SyncedHtml(html, data)
    /\ pc' = "done"
    /\ exitCode' = 0
    /\ UNCHANGED <<docVars, assetVars, mainVars, reason>>

\* sync_inline_json when a marker is missing: die() (lines 171-176)
SyncDie ==
    /\ pc = "sync"
    /\ EndOf(html) = 0
    /\ pc' = "failed"
    /\ exitCode' = 1
    /\ reason' = MarkerMissing(html)
    /\ UNCHANGED <<docVars, syncVars, assetVars, mainVars>>

NextSync == SyncOk \/ SyncDie

SpecSync == InitSync /\ [][NextSync]_vars

\* C7: when index.html holds the opening marker and a closing "</script>"
\* behind it, sync_inline_json keeps the text up to and including the opening
\* marker and the text from the original closing marker on, and the text
\* between the opening marker and the first "</script>" behind it in the new
\* file is the compact serialization with every "</script>" escaped.
C7_SyncFrame ==
    (pc = "done" /\ EndOf(htmlPre) # 0) =>
        /\ StartOf(html) = StartOf(htmlPre)
        /\ SubSeq(html, 1, StartOf(html) - 1) = SubSeq(htmlPre, 1, StartOf(htmlPre) - 1)
        /\ EndOf(html) # 0
        /\ SubSeq(html, EndOf(html), Len(html)) = SubSeq(htmlPre, EndOf(htmlPre), Len(htmlPre))
        /\ SubSeq(html, StartOf(html), EndOf(html) - 1)
               = ReplaceAll(Dumps(data), Closing, EscapedClosing)
        /\ Find(SubSeq(html, StartOf(html), EndOf(html) - 1), Closing, 1) = 0

C7_Witness ==
    /\ pc = "done"
    /\ Find(Dumps(data), Closing, 1) # 0
    /\ StartOf(htmlPre) > 1
    /\ EndOf(htmlPre) > StartOf(htmlPre)
    /\ html # htmlPre

(***************************************************************************)
(* Properties of upsert_article                                            *)
(***************************************************************************)
RecordsOf(articles, week) ==
    {i \in DOMAIN articles : articles[i].week = week}

\* C1: upserting a week already present leaves the size unchanged and the
\* record of that week is afterwards the new article in full (same keys, same
\* values); upserting a week not present increases the size by exactly one.
C1_UpsertReplacesOrAppends ==
    calls > 0 =>
        IF article.week \in WeekSet(pre.articles)
        THEN /\ Len(data.articles) = Len(pre.articles)
             /\ data.articles[FirstMatch(data.articles, article.week)] = article
             /\ Cardinality(RecordsOf(data.articles, article.week))
                    = Cardinality(RecordsOf(pre.articles, article.week))
             /\ UniqueWeeks(pre.articles) =>
                    \A i \in RecordsOf(data.articles, article.week) :
                        data.articles[i] = article
        ELSE /\ Len(data.articles) = Len(pre.articles) + 1
             /\ \E i \in DOMAIN data.articles : data.articles[i] = article

C1_Witness ==
    /\ calls > 0
    /\ \E i \in DOMAIN pre.articles :
          /\ pre.articles[i].week = article.week
          /\ "note" \in DOMAIN pre.articles[i]
    /\ UniqueWeeks(pre.articles)
    /\ Len(pre.articles) = 2

\* C2: from a document with one record per week, after any sequence of
\* upserts no week appears twice and every week initially present or ever
\* upserted appears.
C2_OneRecordPerWeek ==
    initUnique =>
        /\ UniqueWeeks(data.articles)
        /\ WeekSet(data.articles) = seenWeeks

C2_Witness ==
    /\ initUnique
    /\ calls = 2
    /\ article.week \in WeekSet(pre.articles)
    /\ Len(data.articles) >= 2

\* C3: after every upsert the articles are sorted ascending by week, whatever
\* the initial order and the order of the upserts.
C3_SortedAfterUpsert == calls > 0 => IsSorted(data.articles)

C3_Witness ==
    /\ calls > 0
    /\ ~IsSorted(pre.articles)
    /\ ~IsSorted(ReplaceOrAppend(pre.articles, article))
    /\ Len(data.articles) = 3

\* C4: after every upsert, completed equals the number of articles, whatever
\* it held before.
C4_CompletedIsCount == calls > 0 => data.completed = Len(data.articles)

C4_Witness ==
    /\ calls > 0
    /\ pre.completed # Len(pre.articles)
    /\ pre.completed + 1 # Len(data.articles)
    /\ data.completed = Len(data.articles)

(***************************************************************************)
(* The source markdown                                                     *)
(*                                                                         *)
(* A line is [kind, text]: "img" is ![alt](text), "embed" is ![[text]],    *)
(* "quote" is "> text", "div" is "---", "text" is any other line with the  *)
(* given atoms and "blank" is an empty line.                               *)
(***************************************************************************)
Line(kind, text) == [kind |-> kind, text |-> text]

\* the characters of a line
LineText(l) ==
    CASE l.kind = "img" -> <<"!", "(">> \o l.text \o <<")">>
      [] l.kind = "embed" -> <<"!", "[">> \o l.text \o <<"]">>
      [] l.kind = "quote" -> <<">">> \o l.text
      [] l.kind = "div" -> <<"-">>
      [] OTHER -> l.text

\* the least index of a line of one of the kinds, 0 when none
FirstLine(lines, kinds) ==
    IF \E i \in DOMAIN lines : lines[i].kind \in kinds
    THEN CHOOSE i \in DOMAIN lines :
            /\ lines[i].kind \in kinds
            /\ \A j \in 1..(i - 1) : lines[j].kind \notin kinds
    ELSE 0

\* first_cover_src (lines 52-62): <<>> stands for None
FirstCoverSrc(lines) ==
    LET i == FirstLine(lines, {"img", "embed"}) IN
    IF i = 0 THEN <<>>
    ELSE IF lines[i].kind = "img" THEN lines[i].text
    ELSE AssetsPrefix \o lines[i].text

RECURSIVE JoinNewline(_)
JoinNewline(texts) ==
    IF texts = <<>> THEN <<>>
    ELSE IF Len(texts) = 1 THEN texts[1]
    ELSE texts[1] \o <<"\n">> \o JoinNewline(Tail(texts))

\* parse_question (lines 65-77): the first block of quote lines, the empty
\* ones dropped; <<>> when die() is called
ParseQuestion(lines) ==
    LET f == FirstLine(lines, {"quote"})
        block == {i \in DOMAIN lines :
                     i >= f /\ \A j \in f..i : lines[j].kind = "quote"}
        q == [i \in 1..Cardinality(block) |-> lines[f + i - 1].text]
    IN IF f = 0 THEN <<>>
       ELSE JoinNewline(SelectSeq(q, LAMBDA x : x # <<>>))

\* str.strip("\n")
RECURSIVE StripNewlines(_)
StripNewlines(text) ==
    IF text = <<>> THEN text
    ELSE IF Head(text) = "\n" THEN StripNewlines(Tail(text))
    ELSE IF text[Len(text)] = "\n" THEN StripNewlines(SubSeq(text, 1, Len(text) - 1))
    ELSE text

IsBlankText(text) == \A i \in DOMAIN text : text[i] \in {" ", "\n"}

\* the text behind the line at index d
TextAfter(lines, d) ==
    StripNewlines(JoinNewline([i \in 1..(Len(lines) - d) |-> LineText(lines[d + i])]))

\* a slip: without a divider the whole file is taken as the content
ParseContent_whole(lines) ==
    LET d == FirstLine(lines, {"div"})
        body == TextAfter(lines, d)
    IN IF IsBlankText(body) THEN [ok |-> FALSE, reason |-> "empty_content", text |-> <<>>]
       ELSE [ok |-> TRUE, reason |-> "", text |-> body]

\* parse_content (lines 80-91)
ParseContent(lines) ==
    LET d == FirstLine(lines, {"div"})
        body == TextAfter(lines, d)
    IN IF d = 0 THEN [ok |-> FALSE, reason |-> "no_divider", text |-> <<>>]
       ELSE IF IsBlankText(body) THEN [ok |-> FALSE, reason |-> "empty_content", text |-> <<>>]
       ELSE [ok |-> TRUE, reason |-> "", text |-> body]

\* what lines 192-201 of main() end with: the first die() in program order
ParseOutcome(src) ==
    IF ~src.exists THEN "no_source"
    ELSE IF ~src.nameOk THEN "bad_name"
    ELSE IF ParseQuestion(src.lines) = <<>> THEN "no_question"
    ELSE ParseContent(src.lines).reason

(***************************************************************************)
(* pick_cover_asset and the cover resolution of main()                     *)
(***************************************************************************)
\* f"Week{week:02d}丨{title}"
StemName(week, title) == <<"W", ToString(week), "|">> \o title

CoverExts == <<"webp", "png", "jpg", "jpeg">>

StemPath(week, title, ext) == <<<<"a">>, StemName(week, title) \o <<".", ext>>>>

\* a slip: the originals are tried before the converted file
PickCoverAsset_pngFirst(week, title, fs) ==
    LET order == <<"png", "webp", "jpg", "jpeg">>
        found == {i \in DOMAIN order : StemPath(week, title, order[i]) \in fs}
    IN IF found = {} THEN <<>>
       ELSE StemPath(week, title, order[CHOOSE i \in found : \A j \in found : i <= j])

\* pick_cover_asset (lines 123-130): <<>> when die() is called
PickCoverAsset(week, title, fs) ==
    LET found == {i \in DOMAIN CoverExts : StemPath(week, title, CoverExts[i]) \in fs}
    IN IF found = {} THEN <<>>
       ELSE StemPath(week, title, CoverExts[CHOOSE i \in found : \A j \in found : i <= j])

\* lines 204-210: <<>> when pick_cover_asset calls die()
CoverPathOf(src, fs) ==
    LET ref == FirstCoverSrc(src.lines) IN
    IF ref # <<>> /\ IsLocal(ref) /\ ResolveLocalPath(ref) \in fs
    THEN ResolveLocalPath(ref)
    ELSE PickCoverAsset(src.week, src.title, fs)

IsWebp(path) == SuffixOf(NameOf(path)) \in {<<".", "webp">>, <<".", "WEBP">>}

\* line 213: the state after the cover is made sure to be a webp file
CoverConverted(path, st, failAt) ==
    IF IsWebp(path) THEN st ELSE EnsureWebp(path, st, failAt)

CoverWebp(path) == IF IsWebp(path) THEN path ELSE WithSuffixWebp(path)

(***************************************************************************)
(* main()                                                                  *)
(***************************************************************************)
AssetRef == <<".", "/", "a", "/", "n", ".", "png">>

CoverLines ==
    {<<>>,
     <<Line("img", AssetRef)>>,
     <<Line("img", <<".", "/", "a", "/", "n", ".", "webp">>)>>,
     <<Line("img", <<"h">>)>>,
     <<Line("embed", <<"n", ".", "png">>)>>}

QuoteLines == {<<>>, <<Line("quote", <<>>), Line("quote", <<"q">>)>>}

DividerLines == {<<>>, <<Line("div", <<>>)>>}

BodyLines ==
    {<<Line("blank", <<>>)>>,
     <<Line("text", <<"x", " ">> \o AssetRef), Line("blank", <<>>)>>,
     <<Line("text", <<"x">> \o Closing)>>}

Sources ==
    {[exists |-> TRUE, nameOk |-> TRUE, week |-> 1, title |-> <<"t">>,
      lines |-> c \o q \o d \o b] :
        c \in CoverLines, q \in QuoteLines, d \in DividerLines, b \in BodyLines}
    \cup {[exists |-> e, nameOk |-> FALSE, week |-> 0, title |-> <<>>, lines |-> <<>>] :
            e \in BOOLEAN}

AssetFiles ==
    {<<<<"a">>, <<"n", ".", "png">>>>, <<<<"a">>, <<"n", ".", "webp">>>>}
    \cup {StemPath(1, <<"t">>, CoverExts[i]) : i \in DOMAIN CoverExts}

JsonFiles ==
    {[doc |-> [articles |-> <<>>, completed |-> 0, total |-> 52], layout |-> "indent2"],
     [doc |-> [articles |-> <<LegacyArticle(2), LegacyArticle(1)>>, completed |-> 2,
               total |-> 52], layout |-> "other"]}

IndexHtmls ==
    {<<"<", "M", "<", "/", "s", "<", "/", "s">>,
     <<"<", "/", "s">>,
     <<"<", "/", "s", "M", "/", "s">>}

MaxRuns == 2

InitMain ==
    /\ source \in Sources
    /\ files \in SUBSET AssetFiles
    /\ filesPre = files
    /\ articlesJson \in JsonFiles
    /\ html \in IndexHtmls
    /\ htmlPre = html
    /\ toolFailAt \in 0..2
    /\ toolRuns = 0
    /\ content = <<>>
    /\ contentPre = <<>>
    /\ coverPath = <<>>
    /\ question = <<>>
    /\ data = articlesJson.doc
    /\ pre = data
    /\ article = NoArticle
    /\ seenWeeks = WeekSet(data.articles)
    /\ initUnique = UniqueWeeks(data.articles)
    /\ calls = 0
    /\ snap = [json |-> articlesJson, html |-> html, files |-> files]
    /\ firstRun = snap
    /\ run = 1
    /\ reason = ""
    /\ pc = "parse"
    /\ exitCode = -1

Die(why) ==
    /\ pc' = "failed"
    /\ exitCode' = 1
    /\ reason' = why

\* lines 191-201: the source is read and its fields are extracted
MainParse ==
    /\ pc = "parse"
    /\ ParseOutcome(source) = ""
    /\ question' = ParseQuestion(source.lines)
    /\ content' = ParseContent(source.lines).text
    /\ pc' = "cover"
    /\ UNCHANGED <<docVars, syncVars, contentPre, files, filesPre, toolRuns, toolFailAt,
                   source, articlesJson, coverPath, snap, firstRun, run, exitCode, reason>>

MainParseDie ==
    /\ pc = "parse"
    /\ ParseOutcome(source) # ""
    /\ Die(ParseOutcome(source))
    /\ UNCHANGED <<docVars, syncVars, assetVars, mainVars>>

CoverState ==
    CoverConverted(CoverPathOf(source, files),
                   [files |-> files, runs |-> toolRuns, died |-> FALSE], toolFailAt)

\* lines 203-215: the cover is resolved and made sure to be a webp file
MainCover ==
    /\ pc = "cover"
    /\ CoverPathOf(source, files) # <<>>
    /\ ~CoverState.died
    /\ coverPath' = CoverPathOf(source, files)
    /\ files' = CoverState.files
    /\ toolRuns' = CoverState.runs
    /\ pc' = "rewrite"
    /\ UNCHANGED <<docVars, syncVars, content, contentPre, filesPre, toolFailAt,
                   source, articlesJson, question, snap, firstRun, run, exitCode, reason>>

MainCoverDie ==
    /\ pc = "cover"
    /\ \/ /\ CoverPathOf(source, files) = <<>>
          /\ Die("no_cover")
          /\ UNCHANGED <<files, toolRuns>>
       \/ /\ CoverPathOf(source, files) # <<>>
          /\ CoverState.died
          /\ Die("tool")
          /\ toolRuns' = CoverState.runs
          /\ UNCHANGED files
    /\ UNCHANGED <<docVars, syncVars, content, contentPre, filesPre, toolFailAt, mainVars>>

\* line 218
MainRewrite ==
    /\ pc = "rewrite"
    /\ ~RewriteResult.st.died
    /\ contentPre' = content
    /\ content' = RewriteResult.text
    /\ files' = RewriteResult.st.files
    /\ toolRuns' = RewriteResult.st.runs
    /\ pc' = "upsert"
    /\ UNCHANGED <<docVars, syncVars, filesPre, toolFailAt, mainVars, exitCode, reason>>

MainRewriteDie ==
    /\ pc = "rewrite"
    /\ RewriteResult.st.died
    /\ files' = RewriteResult.st.files
    /\ toolRuns' = RewriteResult.st.runs
    /\ Die("tool")
    /\ UNCHANGED <<docVars, syncVars, content, contentPre, filesPre, toolFailAt, mainVars>>

\* the dict of lines 222-228
MainArticle ==
    [week |-> source.week, title |-> source.title, question |-> question,
     content |-> content, image |-> RefOf(CoverWebp(coverPath))]

\* lines 221-231: articles.json is loaded, updated and written back
MainUpsert ==
    /\ pc = "upsert"
    /\ pre' = articlesJson.doc
    /\ article' = MainArticle
    /\ data' = UpsertArticle(articlesJson.doc, MainArticle)
    /\ seenWeeks' = WeekSet(articlesJson.doc.articles) \cup {source.week}
    /\ calls' = calls + 1
    /\ articlesJson' = [doc |-> data', layout |-> "indent2"]
    /\ pc' = "sync"
    /\ UNCHANGED <<initUnique, syncVars, assetVars, source, coverPath, question, snap,
                   firstRun, run, exitCode, reason>>

\* line 232 and the return of main()
MainSync ==
    /\ pc = "sync"
    /\ EndOf(html) # 0
    /\ htmlPre' = html
    /\ html' = SyncedHtml(html, data)
    /\ pc' = "done"
    /\ exitCode' = 0
    /\ UNCHANGED <<docVars, assetVars, mainVars, reason>>

MainSyncDie ==
    /\ pc = "sync"
    /\ EndOf(html) = 0
    /\ Die(MarkerMissing(html))
    /\ UNCHANGED <<docVars, syncVars, assetVars, mainVars>>

\* the script is started again on the same source file, the assets as the
\* previous run left them; the tool may have gone missing in between
RunAgain ==
    /\ pc = "done"
    /\ run < MaxRuns
    /\ run' = run + 1
    /\ snap' = [json |-> articlesJson, html |-> html, files |-> files]
    /\ firstRun' = IF run = 1 THEN snap' ELSE firstRun
    /\ toolRuns' = 0
    /\ toolFailAt' \in 0..1
    /\ content' = <<>>
    /\ coverPath' = <<>>
    /\ question' = <<>>
    /\ pc' = "parse"
    /\ exitCode' = -1
    /\ UNCHANGED <<docVars, syncVars, contentPre, files, filesPre, source, articlesJson,
                   reason>>

NextMain ==
    \/ MainParse \/ MainParseDie
    \/ MainCover \/ MainCoverDie
    \/ MainRewrite \/ MainRewriteDie
    \/ MainUpsert
    \/ MainSync \/ MainSyncDie
    \/ RunAgain

SpecMain == InitMain /\ [][NextMain]_vars

(***************************************************************************)
(* Properties of main()                                                    *)
(***************************************************************************)
HasDivider(src) == \E i \in DOMAIN src.lines : src.lines[i].kind = "div"

OutputsUntouched == articlesJson = snap.json /\ html = snap.html

\* C5: when the source markdown has no "---" line, the run ends with a
\* nonzero exit code and articles.json and index.html are never modified.
C5_NoDividerFails ==
    (source.exists /\ ~HasDivider(source)) =>
        /\ pc \in {"parse", "failed"}
        /\ pc = "parse" => ParseOutcome(source) # ""
        /\ pc = "failed" => exitCode = 1
        /\ OutputsUntouched

C5_Witness ==
    /\ pc = "failed"
    /\ reason = "no_divider"
    /\ exitCode = 1
    /\ ParseQuestion(source.lines) # <<>>
    /\ \E i \in DOMAIN source.lines : source.lines[i].kind = "text"

\* C6: every detected precondition violation ends the run with exit code 1,
\* and a run that ends in failure has modified neither articles.json nor
\* index.html.
C6_FailureModifiesNothing ==
    pc = "failed" => (exitCode = 1 /\ OutputsUntouched)

\* the cover the claim names, judged by the files that exist when the run starts
ExpectedCover(src, fs) ==
    LET ref == FirstCoverSrc(src.lines)
        stem(ext) == <<<<"a">>, StemName(src.week, src.title) \o <<".", ext>>>>
    IN IF ref # <<>> /\ IsLocal(ref) /\ ResolveLocalPath(ref) \in fs
       THEN ResolveLocalPath(ref)
       ELSE IF stem("webp") \in fs THEN stem("webp")
       ELSE IF stem("png") \in fs THEN stem("png")
       ELSE IF stem("jpg") \in fs THEN stem("jpg")
       ELSE IF stem("jpeg") \in fs THEN stem("jpeg")
       ELSE <<>>

\* C9: the cover is the local "./" file the markdown refers to when it
\* exists, otherwise the first existing of assets/Week<NN>|<title> with the
\* extensions webp, png, jpg, jpeg in that order; the run fails with exit
\* code 1 when none of the four exists.
C9_CoverResolution ==
    /\ coverPath # <<>> => coverPath = ExpectedCover(source, snap.files)
    /\ pc \in {"rewrite", "upsert", "sync", "done"} => coverPath # <<>>
    /\ (pc = "failed" /\ reason = "no_cover") =>
          (ExpectedCover(source, snap.files) = <<>> /\ exitCode = 1)
    /\ (ExpectedCover(source, snap.files) = <<>> /\ ParseOutcome(source) = "") =>
          \/ pc \in {"parse", "cover"}
          \/ (pc = "failed" /\ reason = "no_cover" /\ exitCode = 1)

C9_Witness ==
    /\ pc = "done"
    /\ FirstCoverSrc(source.lines) # <<>>
    /\ IsLocal(FirstCoverSrc(source.lines))
    /\ coverPath = StemPath(source.week, source.title, "png")
    /\ StemPath(source.week, source.title, "jpg") \in snap.files
    /\ StemPath(source.week, source.title, "jpeg") \in snap.files

\* C10: a second successful run on the same source with the assets as the
\* first run left them leaves articles.json and index.html as the first run
\* wrote them and never invokes the conversion tool.
C10_RerunIdempotent ==
    run = 2 =>
        /\ toolRuns = 0
        /\ pc = "done" => (articlesJson = firstRun.json /\ html = firstRun.html)

\* the markdown's cover reference names a local file that was missing when
\* the first run started and that the first run created
CoverRefCreated ==
    LET ref == FirstCoverSrc(source.lines) IN
    /\ ref # <<>>
    /\ IsLocal(ref)
    /\ ResolveLocalPath(ref) \notin filesPre
    /\ ResolveLocalPath(ref) \in firstRun.files

\* C10 (amended): the second run never invokes the conversion tool, and it
\* leaves articles.json and index.html as the first run wrote them unless the
\* markdown's cover reference is a local file the first run itself created.
C10_RerunIdempotentUnlessCoverCreated ==
    run = 2 =>
        /\ toolRuns = 0
        /\ (pc = "done" /\ ~CoverRefCreated) =>
              (articlesJson = firstRun.json /\ html = firstRun.html)

C10_Witness ==
    /\ run = 2
    /\ pc = "done"
    /\ toolFailAt = 1
    /\ firstRun.files # filesPre
    /\ Cardinality(firstRun.files) >= Cardinality(filesPre) + 2
    /\ Len(data.articles) = 2
    /\ articlesJson = firstRun.json
    /\ html = firstRun.html

====
